---- MODULE Spec2Model ----
(***************************************************************************)
(* A model of edc_sync: SyncModelMixin (to_outgoing_transaction,           *)
(* sync_producer, is_serialized, encrypted_json) writing the outgoing      *)
(* transaction log of a database, under concurrent writers.                *)
(***************************************************************************)
EXTENDS Integers, Sequences, FiniteSets, TLC

\* ------------------------------------------------------------------ bounds
\* the number of save/delete operations the writers start in one behaviour
MaxOps == 3
\* the same, of concurrent writers
MaxRaceOps == 2
\* the operations, copies and runs of a thread that also copies and consumes
MaxCalls == 4
\* rows of one batch whose decryption or restoring fails
MaxFailures == 1

\* ------------------------------------------------------------ the universe
DBs == {"default", "client", "server"}
Writers == {"w1", "w2"}
Entities == {"e1", "e2"}
\* f1 of an entity with no row in the database
Absent == 0
\* Python's None, True and False, as passed for created and deleted
None == "None"
Flags == {"None", "True", "False"}
\* a Django setting is absent (reading it raises AttributeError) or a boolean
Unset == "unset"
SettingValues == {"unset", "True", "False"}
\* socket.gethostname(): one host runs all the writers
hostname == "host"
ModelNames == {"TestModel", "TestModelAudit"}
\* BadTestModel and AnotherBadTestModel of the tests
BadModels == {"BadTestModel", "AnotherBadTestModel"}
\* a model class that overrides skip_saving_criteria() to return True
SkippingModels == {"SkippingTestModel"}
OtherModels == BadModels \cup SkippingModels

VARIABLES
    ALLOW_MODEL_SERIALIZATION,              \* settings.ALLOW_MODEL_SERIALIZATION
    ALLOW_AUDIT_TRAIL_MODEL_SERIALIZATION,  \* settings.ALLOW_AUDIT_TRAIL_MODEL_SERIALIZATION
    now,          \* the last reading of the clock (timezone.now()), in microseconds
    entities,     \* entities[d][e]: f1 of TestModel e in database d, or Absent
    producers,    \* producers[d]: the Producer rows of database d, in creation order
    outgoing,     \* outgoing[d]: the OutgoingTransaction rows of d, in creation order
    proc,         \* proc[w]: the call frame of writer w
    result,       \* result[w]: what w's last to_outgoing_transaction returned or raised
    mutations,    \* mutations[d][n][e]: to_outgoing_transaction calls that returned
    ops,          \* operations started so far
    audits,       \* audits[d]: the TestModelAudit rows of database d
    incoming,     \* incoming[d]: the IncomingTransaction rows of d, in creation order
    consumer,     \* the last run of deserialize: its batch, failed rows and messages
    totals,       \* the counts of all rows applied so far, over all runs
    copies,       \* calls of copy_to_incoming_transaction so far
    runs,         \* calls of deserialize so far
    instances     \* instances[d][m]: the rows of the other model classes m in d

vars == <<ALLOW_MODEL_SERIALIZATION, ALLOW_AUDIT_TRAIL_MODEL_SERIALIZATION, now,
          entities, producers, outgoing, proc, result, mutations, ops,
          audits, incoming, consumer, totals, copies, runs, instances>>

\* what the consumer and the transport own
syncvars == <<incoming, consumer, totals, copies, runs>>

settings == <<ALLOW_MODEL_SERIALIZATION, ALLOW_AUDIT_TRAIL_MODEL_SERIALIZATION>>

IdleFrame == [pc |-> "idle"]

\* ------------------------------------------------------------ pure helpers
\* a slip: 'D' if deleted, then overwritten by the test of created
action_code_created_last(created, deleted) ==
    LET c == IF created = None THEN "True" ELSE created
    IN  IF c = "True" THEN "I" ELSE IF deleted = "True" THEN "D" ELSE "U"

\* created = True if created is None else created; 'I' if created else 'U';
\* 'D' if deleted
action_code(created, deleted) ==
    LET c == IF created = None THEN "True" ELSE created
        a == IF c = "True" THEN "I" ELSE "U"
    IN  IF deleted = "True" THEN "D" ELSE a

\* a slip: the audit-trail switch is read whatever the global switch says
is_serialized_audit_switch_only ==
    IF ALLOW_AUDIT_TRAIL_MODEL_SERIALIZATION = Unset
    THEN TRUE ELSE ALLOW_AUDIT_TRAIL_MODEL_SERIALIZATION = "True"

\* is_serialized(): the global switch (True when absent); when it is true the
\* result is replaced by the audit-trail switch (True when absent), whatever
\* the kind of the instance
is_serialized ==
    LET g == IF ALLOW_MODEL_SERIALIZATION = Unset THEN "True" ELSE ALLOW_MODEL_SERIALIZATION
        a == IF ALLOW_AUDIT_TRAIL_MODEL_SERIALIZATION = Unset
             THEN "True" ELSE ALLOW_AUDIT_TRAIL_MODEL_SERIALIZATION
    IN  IF g = "True" THEN a = "True" ELSE FALSE

\* '{}-{}'.format(hostname, using)
producer_name(using) == hostname \o "-" \o using

\* serializers.serialize("json", [self]) then FieldCryptor('aes', 'local').encrypt
encrypted_json(name, fields) ==
    [algorithm |-> "aes", mode |-> "local", json |-> [model |-> name, fields |-> fields]]

\* the field values of a TestModel (natural key f1) or of its audit instance
TestModelFields(e, v) == [f1 |-> e, integer |-> v]

\* the row Producer.objects.using(using).create(...) writes
Producer(using) ==
    [name |-> producer_name(using), url |-> "http://" \o hostname \o "/",
     is_active |-> TRUE, settings_key |-> using]

\* Producer.objects.using(using).get(name=name) finds a row
ProducerExists(using, name) ==
    \E i \in 1..Len(producers[using]) : producers[using][i].name = name

\* a slip: every insert is taken for a duplicate
UniqueViolation_always(using, name) == TRUE

\* Producer.name is unique: an insert of a name that is there raises IntegrityError
UniqueViolation(using, name) ==
    \E i \in 1..Len(producers[using]) : producers[using][i].name = name

\* a slip: tx_pk is given the type's name
OutgoingTransaction_pk_is_name(name, id, tx, ts, producer, action) ==
    [tx_name |-> name, tx_pk |-> name, tx |-> tx, timestamp |-> ts,
     producer |-> producer, action |-> action, is_consumed_server |-> FALSE]

\* the row OutgoingTransaction.objects.using(using).create(...) writes
OutgoingTransaction(name, id, tx, ts, producer, action) ==
    [tx_name |-> name, tx_pk |-> id, tx |-> tx, timestamp |-> ts,
     producer |-> producer, action |-> action, is_consumed_server |-> FALSE]

\* timezone.now(): the clock never runs backwards; two readings within one
\* microsecond are equal
ClockReadings == {now, now + 1}

TxNames == {"TestModel", "TestModelAudit", "Producer"}

\* the counts of a DeserializationResult
NoCounts == [inserted |-> 0, updated |-> 0, deleted |-> 0]

\* no run of deserialize yet
IdleConsumer ==
    [raised |-> None, batch |-> << >>, failed |-> {},
     messages |-> [n \in TxNames |-> [present |-> FALSE, counts |-> NoCounts, errors |-> 0]]]

\* ------------------------------------------------------------------- Init
Init ==
    /\ ALLOW_MODEL_SERIALIZATION \in SettingValues
    /\ ALLOW_AUDIT_TRAIL_MODEL_SERIALIZATION \in SettingValues
    /\ now = 0
    /\ entities = [d \in DBs |-> [e \in Entities |-> Absent]]
    /\ producers = [d \in DBs |-> << >>]
    /\ outgoing = [d \in DBs |-> << >>]
    /\ proc = [w \in Writers |-> IdleFrame]
    /\ result = [w \in Writers |-> "-"]
    /\ mutations = [d \in DBs |-> [n \in ModelNames \cup OtherModels |->
                                       [e \in Entities |-> 0]]]
    /\ ops = 0
    /\ audits = [d \in DBs |-> {}]
    /\ incoming = [d \in DBs |-> << >>]
    /\ consumer = IdleConsumer
    /\ totals = NoCounts
    /\ copies = 0
    /\ runs = 0
    /\ instances = [d \in DBs |-> [m \in OtherModels |-> 0]]

\* ------------------------------------------------------- the save/delete hooks
Frame(name, id, using, created, deleted, integer, then) ==
    [pc |-> "tot", name |-> name, id |-> id, using |-> using, created |-> created,
     deleted |-> deleted, integer |-> integer, ts |-> 0, producer |-> None,
     path |-> "-", then |-> then]

\* a slip: no audit instance is created
Return_no_audit(f) == IdleFrame

\* the frames a writer may be in once its call of to_outgoing_transaction has
\* returned: after the instance's own row, the audit instance of a save is
\* created and serialized in turn, with created and deleted left out
Return(f) ==
    IF f.then = "audit"
    THEN Frame("TestModelAudit", f.id, f.using, None, None, f.integer, "done")
    ELSE IdleFrame

\* the audit instance of a save is written before it is serialized
Audited(f) ==
    IF f.then = "audit"
    THEN [audits EXCEPT ![f.using] = @ \cup {TestModelFields(f.id, f.integer)}]
    ELSE audits

Returned(f) ==
    [mutations EXCEPT ![f.using][f.name][f.id] = @ + 1]

\* TestModel.objects.using(d).create(f1=e) or obj.save(using=d): the row is
\* written (every save writes a new field value), then post_save calls
\* to_outgoing_transaction(using, created)
save(w, e, d) ==
    LET v == ops + 1 IN
    /\ proc[w].pc = "idle"
    /\ ops < MaxOps
    /\ ops' = ops + 1
    /\ entities' = [entities EXCEPT ![d][e] = v]
    /\ proc' = [proc EXCEPT ![w] =
           Frame("TestModel", e, d, IF entities[d][e] = Absent THEN "True" ELSE "False",
                 None, v, "audit")]
    /\ UNCHANGED <<settings, instances, now, producers, outgoing, result, mutations, audits, syncvars>>

\* obj.delete(using=d): the row is removed, then post_delete calls
\* to_outgoing_transaction(using, deleted=True), created as the hook passes it
delete(w, e, d, c) ==
    /\ proc[w].pc = "idle"
    /\ ops < MaxOps
    /\ entities[d][e] # Absent
    /\ ops' = ops + 1
    /\ entities' = [entities EXCEPT ![d][e] = Absent]
    /\ proc' = [proc EXCEPT ![w] =
           Frame("TestModel", e, d, c, "True", entities[d][e], "done")]
    /\ UNCHANGED <<settings, instances, now, producers, outgoing, result, mutations, audits, syncvars>>

\* --------------------------------------------------------- the model classes
\* what the class and its manager define: BadTestModel has neither
\* natural_key nor get_by_natural_key, AnotherBadTestModel has natural_key and
\* the plain models.Manager()
Attributes(model) ==
    CASE model = "BadTestModel" -> {}
      [] model = "AnotherBadTestModel" -> {"natural_key"}
      [] OTHER -> {"natural_key", "get_by_natural_key"}

\* a slip: the manager is not looked at
__init___natural_key_only(model) ==
    IF "natural_key" \notin Attributes(model)
    THEN "SyncError: missing method natural_key"
    ELSE None

\* SyncModelMixin.__init__: self.natural_key, then
\* self.__class__.objects.get_by_natural_key; an AttributeError is raised as
\* SyncError, before super().__init__
__init__(model) ==
    IF "natural_key" \notin Attributes(model)
    THEN "SyncError: missing method natural_key"
    ELSE IF "get_by_natural_key" \notin Attributes(model)
         THEN "SyncError: missing manager method get_by_natural_key"
         ELSE None

\* skip_saving_criteria(): the body of the mixin's method is the expression
\* False, so it returns None; a class may override it to return True
skip_saving_criteria(model) ==
    IF model \in SkippingModels THEN "True" ELSE None

\* Model.objects.using(d).create(f1=e) of another model class: the instance
\* is constructed, which may raise; then its row is written and post_save
\* calls to_outgoing_transaction(using, created=True)
create(w, model, e, d) ==
    /\ proc[w].pc = "idle"
    /\ ops < MaxOps
    /\ ops' = ops + 1
    /\ IF __init__(model) # None
       THEN /\ result' = [result EXCEPT ![w] = __init__(model)]
            /\ UNCHANGED <<instances, proc>>
       ELSE /\ instances' = [instances EXCEPT ![d][model] = @ + 1]
            /\ proc' = [proc EXCEPT ![w] =
                   Frame(model, e, d, "True", None, ops + 1, "done")]
            /\ UNCHANGED result
    /\ UNCHANGED <<settings, now, entities, producers, outgoing, mutations, audits,
                   syncvars>>

\* ------------------------------------------------- to_outgoing_transaction
\* not serialized: returns None
tot_not_serialized(w) ==
    /\ proc[w].pc = "tot"
    /\ ~is_serialized
    /\ result' = [result EXCEPT ![w] = None]
    /\ mutations' = Returned(proc[w])
    /\ proc' = [proc EXCEPT ![w] = Return(proc[w])]
    /\ audits' = Audited(proc[w])
    /\ UNCHANGED <<settings, instances, now, entities, producers, outgoing, ops, syncvars>>

\* a slip: the assertion is passed and the call goes on
tot_assert_fails_goes_on(w) ==
    /\ proc[w].pc = "tot"
    /\ is_serialized
    /\ proc[w].using = "default"
    /\ now' \in ClockReadings
    /\ proc' = [proc EXCEPT ![w].ts = now', ![w].pc = "get"]
    /\ UNCHANGED <<settings, instances, entities, producers, outgoing, result, mutations,
                   ops, audits, syncvars>>

\* assert using != 'default': the AssertionError leaves the hook and the save
tot_assert_fails(w) ==
    /\ proc[w].pc = "tot"
    /\ is_serialized
    /\ proc[w].using = "default"
    /\ result' = [result EXCEPT ![w] = "AssertionError"]
    /\ proc' = [proc EXCEPT ![w] = IdleFrame]
    /\ UNCHANGED <<settings, instances, now, entities, producers, outgoing, mutations, ops, audits,
                   syncvars>>

\* the keyword arguments of create() are evaluated in order: tx, then the
\* timestamp, then producer=self.sync_producer(using)
tot_timestamp(w) ==
    /\ proc[w].pc = "tot"
    /\ is_serialized
    /\ proc[w].using # "default"
    /\ now' \in ClockReadings
    /\ proc' = [proc EXCEPT ![w].ts = now', ![w].pc = "get"]
    /\ UNCHANGED <<settings, instances, entities, producers, outgoing, result, mutations, ops, audits,
                   syncvars>>

\* a slip: Producer.DoesNotExist is passed, nothing is created
sync_producer_get_no_create(w) ==
    /\ proc[w].pc = "get"
    /\ proc' = [proc EXCEPT ![w].pc = "write", ![w].path = "found",
                            ![w].producer = producer_name(proc[w].using)]
    /\ UNCHANGED <<settings, instances, now, entities, producers, outgoing, result, mutations, ops,
                   audits, syncvars>>

\* sync_producer: Producer.objects.using(using).get(name=producer_name)
sync_producer_get(w) ==
    /\ proc[w].pc = "get"
    /\ IF ProducerExists(proc[w].using, producer_name(proc[w].using))
       THEN proc' = [proc EXCEPT ![w].pc = "write", ![w].path = "found",
                                 ![w].producer = producer_name(proc[w].using)]
       ELSE proc' = [proc EXCEPT ![w].pc = "create"]
    /\ UNCHANGED <<settings, instances, now, entities, producers, outgoing, result, mutations, ops,
                   audits, syncvars>>

\* a slip: the IntegrityError of the lost race is not caught
sync_producer_create_uncaught(w) ==
    LET using == proc[w].using
        name == producer_name(using)
    IN  /\ proc[w].pc = "create"
        /\ IF UniqueViolation(using, name)
           THEN /\ proc' = [proc EXCEPT ![w] = IdleFrame]
                /\ result' = [result EXCEPT ![w] = "IntegrityError"]
                /\ UNCHANGED <<now, producers, outgoing>>
           ELSE /\ producers' = [producers EXCEPT ![using] = Append(@, Producer(using))]
                /\ now' \in ClockReadings
                /\ outgoing' = [outgoing EXCEPT ![using] = Append(@,
                       OutgoingTransaction("Producer", name,
                           encrypted_json("Producer", Producer(using)), now', name,
                           action_code("True", None)))]
                /\ proc' = [proc EXCEPT ![w].pc = "write", ![w].path = "created",
                                         ![w].producer = name]
                /\ UNCHANGED result
        /\ UNCHANGED <<settings, instances, entities, mutations, ops, audits, syncvars>>

\* sync_producer, except Producer.DoesNotExist: create inside transaction.atomic;
\* the name is unique, an IntegrityError is caught and passed. The new Producer is
\* a synchronized model itself: its post_save writes its own OutgoingTransaction
\* (its sync_producer finds the row just written).
sync_producer_create(w) ==
    LET using == proc[w].using
        name == producer_name(using)
    IN  /\ proc[w].pc = "create"
        /\ IF UniqueViolation(using, name)
           THEN /\ proc' = [proc EXCEPT ![w].pc = "write", ![w].path = "race_lost",
                                         ![w].producer = name]
                /\ UNCHANGED <<now, producers, outgoing>>
           ELSE /\ producers' = [producers EXCEPT ![using] = Append(@, Producer(using))]
                /\ now' \in ClockReadings
                /\ outgoing' = [outgoing EXCEPT ![using] = Append(@,
                       OutgoingTransaction("Producer", name,
                           encrypted_json("Producer", Producer(using)), now', name,
                           action_code("True", None)))]
                /\ proc' = [proc EXCEPT ![w].pc = "write", ![w].path = "created",
                                         ![w].producer = name]
        /\ UNCHANGED <<settings, instances, entities, result, mutations, ops, audits, syncvars>>

\* a slip: the row is written through a fixed connection, not through using
tot_create_fixed_connection(w) ==
    LET f == proc[w]
    IN  /\ f.pc = "write"
        /\ outgoing' = [outgoing EXCEPT !["server"] = Append(@,
               OutgoingTransaction(f.name, f.id,
                   encrypted_json(f.name, TestModelFields(f.id, f.integer)), f.ts, f.producer, action_code(f.created, f.deleted)))]
        /\ result' = [result EXCEPT ![w] = "OutgoingTransaction"]
        /\ mutations' = Returned(f)
        /\ proc' = [proc EXCEPT ![w] = Return(f)]
        /\ audits' = Audited(f)
        /\ UNCHANGED <<settings, instances, now, entities, producers, ops, syncvars>>

\* OutgoingTransaction.objects.using(using).create(...); return outgoing_transaction
tot_create(w) ==
    LET f == proc[w]
    IN  /\ f.pc = "write"
        /\ outgoing' = [outgoing EXCEPT ![f.using] = Append(@,
               OutgoingTransaction(f.name, f.id,
                   encrypted_json(f.name, TestModelFields(f.id, f.integer)), f.ts, f.producer, action_code(f.created, f.deleted)))]
        /\ result' = [result EXCEPT ![w] = "OutgoingTransaction"]
        /\ mutations' = Returned(f)
        /\ proc' = [proc EXCEPT ![w] = Return(f)]
        /\ audits' = Audited(f)
        /\ UNCHANGED <<settings, instances, now, entities, producers, ops, syncvars>>

to_outgoing_transaction(w) ==
    \/ tot_not_serialized(w)
    \/ tot_assert_fails(w)
    \/ tot_timestamp(w)
    \/ tot_create(w)

sync_producer(w) ==
    \/ sync_producer_get(w)
    \/ sync_producer_create(w)

\* ---------------------------------------------------------------- transport
\* the rows S of a table by ascending timestamp, the default ordering of the
\* transaction tables (rows of one timestamp in creation order)
RECURSIVE ByTimestamp(_, _)
ByTimestamp(rows, S) ==
    IF S = {} THEN << >>
    ELSE LET m == CHOOSE i \in S : \A j \in S :
                      \/ rows[i].timestamp < rows[j].timestamp
                      \/ rows[i].timestamp = rows[j].timestamp /\ i <= j
         IN  <<m>> \o ByTimestamp(rows, S \ {m})

\* a slip: the row is stamped when it is copied, first in every order
IncomingTransaction_restamped(o) ==
    [tx_name |-> o.tx_name, tx_pk |-> o.tx_pk, tx |-> o.tx, timestamp |-> 0,
     producer |-> o.producer, action |-> o.action, is_consumed |-> FALSE,
     is_error |-> FALSE]

\* the IncomingTransaction written for OutgoingTransaction o
IncomingTransaction(o) ==
    [tx_name |-> o.tx_name, tx_pk |-> o.tx_pk, tx |-> o.tx, timestamp |-> o.timestamp,
     producer |-> o.producer, action |-> o.action, is_consumed |-> FALSE,
     is_error |-> FALSE]

\* the rows a queryset of OutgoingTransaction selects: .all() or
\* .filter(is_consumed_server=False)
Selected(origin, selection) ==
    {i \in 1..Len(outgoing[origin]) :
        selection = "all" \/ ~outgoing[origin][i].is_consumed_server}

\* queryset.copy_to_incoming_transaction(peer): one IncomingTransaction per
\* selected row, which is flagged as consumed by the server
copy_to_incoming_transaction(origin, peer, selection) ==
    LET S == Selected(origin, selection)
        idx == ByTimestamp(outgoing[origin], S)
    IN  /\ copies' = copies + 1
        /\ incoming' = [incoming EXCEPT ![peer] =
               @ \o [k \in 1..Len(idx) |-> IncomingTransaction(outgoing[origin][idx[k]])]]
        /\ outgoing' = [outgoing EXCEPT ![origin] =
               [i \in 1..Len(@) |->
                   IF i \in S THEN [@[i] EXCEPT !.is_consumed_server = TRUE] ELSE @[i]]]
        /\ UNCHANGED <<settings, instances, now, entities, producers, proc, result, mutations, ops,
                       audits, consumer, totals, runs>>

\* ----------------------------------------------------------------- consumer
\* FieldCryptor('aes', 'local').decrypt, then the deserialized field values
restore(tx) == tx.json.fields

\* SyncModelMixin.deserialize_on_duplicate(): True, the duplicate is saved over
\* the existing record
deserialize_on_duplicate == TRUE

\* the effect of one transaction on the consuming database: its TestModel,
\* TestModelAudit and Producer rows afterwards, and what the row counts as
Apply(row, E, A, P) ==
    LET fields == restore(row.tx)
        same == [entities |-> E, audits |-> A, producers |-> P, kind |-> "none"]
    IN  CASE row.tx_name = "TestModel" /\ row.action = "I" ->
                IF E[fields.f1] = Absent \/ deserialize_on_duplicate
                THEN [same EXCEPT !.entities = [E EXCEPT ![fields.f1] = fields.integer],
                                  !.kind = "inserted"]
                ELSE same
          [] row.tx_name = "TestModel" /\ row.action = "U" ->
                [same EXCEPT !.entities = [E EXCEPT ![fields.f1] = fields.integer],
                             !.kind = IF E[fields.f1] = Absent THEN "inserted"
                                      ELSE "updated"]
          [] row.tx_name = "TestModel" /\ row.action = "D" ->
                IF E[row.tx_pk] = Absent THEN same
                ELSE [same EXCEPT !.entities = [E EXCEPT ![row.tx_pk] = Absent],
                                  !.kind = "deleted"]
          [] row.tx_name = "TestModelAudit" ->
                IF fields \notin A \/ deserialize_on_duplicate
                THEN [same EXCEPT !.audits = A \cup {fields}, !.kind = "inserted"]
                ELSE same
          [] row.tx_name = "Producer" ->
                IF \A i \in 1..Len(P) : P[i].name # fields.name
                THEN [same EXCEPT !.producers = Append(P, fields), !.kind = "inserted"]
                ELSE IF deserialize_on_duplicate
                     THEN [same EXCEPT !.kind = "inserted"]
                     ELSE same

\* a slip: whatever was saved counts as updated
Counted_as_updated(counts, kind) ==
    IF kind = "none" THEN counts ELSE [counts EXCEPT !.updated = @ + 1]

Counted(counts, kind) ==
    IF kind = "none" THEN counts ELSE [counts EXCEPT ![kind] = @ + 1]

\* a slip: the queryset is .all()
Pending_all(peer) == {i \in 1..Len(incoming[peer]) : TRUE}

\* the rows of the queue not yet consumed
Pending(peer) == {i \in 1..Len(incoming[peer]) : ~incoming[peer][i].is_consumed}

\* the consuming database once row i is applied with outcome r
Saved(i, st, r) ==
    [entities |-> r.entities, audits |-> r.audits, producers |-> r.producers,
     incoming |-> [st.incoming EXCEPT ![i].is_consumed = TRUE],
     totals |-> Counted(st.totals, r.kind),
     messages |-> [st.messages EXCEPT
         ![st.incoming[i].tx_name].present = TRUE,
         ![st.incoming[i].tx_name].counts = Counted(@, r.kind)]]

\* a slip: the row is marked as consumed before it is applied
deserialize_row_marks_first(i, F, st) ==
    IF i \in F
    THEN [st EXCEPT !.incoming[i].is_error = TRUE, !.incoming[i].is_consumed = TRUE,
                    !.messages[st.incoming[i].tx_name].present = TRUE,
                    !.messages[st.incoming[i].tx_name].errors = @ + 1]
    ELSE Saved(i, st, Apply(st.incoming[i], st.entities, st.audits, st.producers))

\* one row of the batch: decrypted and restored (which fails for the rows F),
\* applied, marked as consumed and counted; a failing row is left unconsumed
\* with its error recorded, and the batch goes on
deserialize_row(i, F, st) ==
    IF i \in F
    THEN [st EXCEPT !.incoming[i].is_error = TRUE,
                    !.messages[st.incoming[i].tx_name].present = TRUE,
                    !.messages[st.incoming[i].tx_name].errors = @ + 1]
    ELSE Saved(i, st, Apply(st.incoming[i], st.entities, st.audits, st.producers))

\* a slip: the failure of a row ends the run
RECURSIVE deserialize_batch_stops(_, _, _)
deserialize_batch_stops(batch, F, st) ==
    IF batch = << >> THEN st
    ELSE IF Head(batch) \in F THEN deserialize_row(Head(batch), F, st)
         ELSE deserialize_batch_stops(Tail(batch), F, deserialize_row(Head(batch), F, st))

\* the rows of the batch, one at a time, in timestamp order
RECURSIVE deserialize_batch(_, _, _)
deserialize_batch(batch, F, st) ==
    IF batch = << >> THEN st
    ELSE deserialize_batch(Tail(batch), F, deserialize_row(Head(batch), F, st))

\* a slip: the role of the device is tested once the batch is applied
deserialize_gate_last(peer, is_server, F) ==
    /\ runs' = runs + 1
    /\ ~is_server => F = {}
    /\ \E batch \in {ByTimestamp(incoming[peer], Pending(peer))} :
       \E st \in {deserialize_batch(batch, F,
                     [entities |-> entities[peer], audits |-> audits[peer],
                      producers |-> producers[peer], incoming |-> incoming[peer],
                      totals |-> totals, messages |-> IdleConsumer.messages])} :
           /\ entities' = [entities EXCEPT ![peer] = st.entities]
           /\ audits' = [audits EXCEPT ![peer] = st.audits]
           /\ producers' = [producers EXCEPT ![peer] = st.producers]
           /\ incoming' = [incoming EXCEPT ![peer] = st.incoming]
           /\ totals' = st.totals
           /\ consumer' = IF is_server
                          THEN [raised |-> None, batch |-> batch, failed |-> F,
                                messages |-> st.messages]
                          ELSE [IdleConsumer EXCEPT !.raised = "SyncError"]
    /\ UNCHANGED <<settings, instances, now, outgoing, proc, result, mutations, ops, copies>>

\* IncomingTransaction.objects.using(peer).filter(is_consumed=False)
\*     .deserialize(custom_device=device): a device that is not a server raises
\* SyncError before any row is read; a server applies the batch and returns
\* one message per tx_name of the batch
deserialize(peer, is_server, F) ==
    /\ runs' = runs + 1
    /\ ~is_server => F = {}
    /\ IF is_server
       THEN \E batch \in {ByTimestamp(incoming[peer], Pending(peer))} :
            \E st \in {deserialize_batch(batch, F,
                          [entities |-> entities[peer], audits |-> audits[peer],
                           producers |-> producers[peer], incoming |-> incoming[peer],
                           totals |-> totals, messages |-> IdleConsumer.messages])} :
                /\ entities' = [entities EXCEPT ![peer] = st.entities]
                /\ audits' = [audits EXCEPT ![peer] = st.audits]
                /\ producers' = [producers EXCEPT ![peer] = st.producers]
                /\ incoming' = [incoming EXCEPT ![peer] = st.incoming]
                /\ totals' = st.totals
                /\ consumer' = [raised |-> None, batch |-> batch, failed |-> F,
                                messages |-> st.messages]
       ELSE /\ consumer' = [IdleConsumer EXCEPT !.raised = "SyncError"]
            /\ UNCHANGED <<entities, audits, producers, incoming, totals>>
    /\ UNCHANGED <<settings, instances, now, outgoing, proc, result, mutations, ops, copies>>

\* the sets of at most k elements of S
RECURSIVE UpTo(_, _)
UpTo(S, k) ==
    IF k = 0 THEN {{}}
    ELSE LET P == UpTo(S, k - 1) IN P \cup {F \cup {i} : F \in P, i \in S}

\* the rows whose decryption or restoring may fail in one run
Failing(peer) == UpTo(Pending(peer), MaxFailures)

\* the application starts an operation
Mutate(W, E, D) ==
    \/ \E w \in W, e \in E, d \in D : save(w, e, d)
    \/ \E w \in W, e \in E, d \in D, c \in Flags : delete(w, e, d, c)

\* a writer takes the next step of the operation it is in
Work(W) ==
    \/ \E w \in W : to_outgoing_transaction(w)
    \/ \E w \in W : sync_producer(w)

\* one writer at a time
Next ==
    \/ Mutate({"w1"}, Entities, {"default", "client"})
    \/ Work({"w1"})

Spec == Init /\ [][Next]_vars

\* concurrent writers of one entity
NextRace ==
    \/ ops < MaxRaceOps /\ Mutate(Writers, {"e1"}, {"default", "client"})
    \/ Work(Writers)

SpecRace == Init /\ [][NextRace]_vars

\* one writer of the test model and of the other model classes
NextModels ==
    \/ \E model \in OtherModels, d \in {"default", "client"} :
           create("w1", model, "e1", d)
    \/ Mutate({"w1"}, {"e1"}, {"default", "client"})
    \/ Work({"w1"})

SpecModels == Init /\ [][NextModels]_vars

\* the calls the thread has made
Calls == ops + copies + runs

\* one thread, as in TestSync: it writes a node, copies the log of the client
\* database to the server and consumes it there, one call after the other;
\* the settings are the defaults, or serialization is off
InitSync ==
    /\ Init
    /\ ALLOW_MODEL_SERIALIZATION \in {Unset, "False"}
    /\ ALLOW_AUDIT_TRAIL_MODEL_SERIALIZATION = Unset

NextSync ==
    \/ Calls < MaxCalls /\ Mutate({"w1"}, {"e1"}, {"default", "client"})
    \/ Work({"w1"})
    \/ /\ Calls < MaxCalls
       /\ proc["w1"].pc = "idle"
       /\ \E selection \in {"all", "unconsumed"} :
              copy_to_incoming_transaction("client", "server", selection)
    \/ /\ Calls < MaxCalls
       /\ proc["w1"].pc = "idle"
       /\ \E is_server \in BOOLEAN, F \in Failing("server") :
              deserialize("server", is_server, F)

SpecSync == InitSync /\ [][NextSync]_vars

\* two nodes save the same entity, each in its own database; the log of the
\* client is copied to the server and consumed there
NextPeers ==
    \/ Calls < MaxCalls /\ \E d \in DBs : save("w1", "e1", d)
    \/ Work({"w1"})
    \/ /\ Calls < MaxCalls
       /\ proc["w1"].pc = "idle"
       /\ copy_to_incoming_transaction("client", "server", "all")
    \/ /\ Calls < MaxCalls
       /\ proc["w1"].pc = "idle"
       /\ deserialize("server", TRUE, {})

SpecPeers == InitSync /\ [][NextPeers]_vars

\* ------------------------------------------------------------ properties
\* the rows of database d's log for instance (n, e)
RowsOf(d, n, e) ==
    {i \in 1..Len(outgoing[d]) : outgoing[d][i].tx_name = n /\ outgoing[d][i].tx_pk = e}

\* the actions of the rows of d's log for (n, e), in creation order
RECURSIVE ActionsOf(_, _, _, _)
ActionsOf(d, n, e, k) ==
    IF k = 0 THEN << >>
    ELSE LET r == outgoing[d][k]
         IN  IF r.tx_name = n /\ r.tx_pk = e
             THEN Append(ActionsOf(d, n, e, k - 1), r.action)
             ELSE ActionsOf(d, n, e, k - 1)

\* C1: with serialization enabled, in a database other than 'default', the log
\* holds exactly one row (tx_name = the type, tx_pk = the id) for every call of
\* to_outgoing_transaction that returned: k mutations of an entity, k rows.
C1_OneRowPerMutation ==
    is_serialized =>
        \A d \in DBs \ {"default"}, n \in ModelNames, e \in Entities :
            Cardinality(RowsOf(d, n, e)) = mutations[d][n][e]

C1_Witness ==
    /\ is_serialized
    /\ mutations["client"]["TestModel"]["e1"] = 2
    /\ mutations["client"]["TestModel"]["e2"] = 1
    /\ Cardinality(RowsOf("client", "TestModel", "e1")) = 2
    /\ Len(outgoing["client"]) > 3

\* C2: the rows of one entity read, in creation order, Insert for its first
\* save, Update for every later save and Delete for a delete (whatever created
\* the delete hook passes); a call that leaves created out (the audit
\* instance's) is recorded as an Insert.
C2_ActionCodes ==
    \A d \in DBs, e \in Entities :
        LET a == ActionsOf(d, "TestModel", e, Len(outgoing[d]))
        IN  /\ \A i \in 1..Len(a) :
                 /\ i = 1 => a[i] = "I"
                 /\ i > 1 /\ a[i - 1] \in {"I", "U"} => a[i] \in {"U", "D"}
                 /\ i > 1 /\ a[i - 1] = "D" => a[i] = "I"
            /\ entities[d][e] = Absent /\ proc["w1"].pc = "idle" /\ Len(a) > 0
                   => a[Len(a)] = "D"
            /\ \A i \in RowsOf(d, "TestModelAudit", e) : outgoing[d][i].action = "I"

C2_Witness ==
    /\ ActionsOf("client", "TestModel", "e1", Len(outgoing["client"])) = <<"I", "U", "D">>
    /\ RowsOf("client", "TestModelAudit", "e1") # {}

\* C3: with the global switch off no save or delete writes an
\* OutgoingTransaction (or a Producer) in any database, and
\* to_outgoing_transaction returns None.
C3_GlobalSwitchOff ==
    ALLOW_MODEL_SERIALIZATION = "False" =>
        /\ \A d \in DBs : outgoing[d] = << >> /\ producers[d] = << >>
        /\ \A w \in Writers : result[w] \in {"-", None}

C3_Witness ==
    /\ ALLOW_MODEL_SERIALIZATION = "False"
    /\ ALLOW_AUDIT_TRAIL_MODEL_SERIALIZATION = "True"
    /\ mutations["client"]["TestModel"]["e1"] = 2
    /\ mutations["default"]["TestModelAudit"]["e2"] = 1
    /\ result["w1"] = None

\* the Producer rows of database d named '<host>-<d>'
ProducersOf(d) ==
    {i \in 1..Len(producers[d]) : producers[d][i].name = "host-" \o d}

\* a call of sync_producer(d) has returned
SyncProducerReturned(d) ==
    \/ \E w \in Writers : proc[w].pc = "write" /\ proc[w].using = d
    \/ \E i \in 1..Len(outgoing[d]) : outgoing[d][i].tx_name # "Producer"

\* C8: whatever the interleaving of the writers' sync_producer calls, a
\* database holds at most one Producer '<host>-<database>', and exactly one
\* once a call has returned.
C8_OneProducer ==
    \A d \in DBs :
        /\ Cardinality(ProducersOf(d)) <= 1
        /\ Len(producers[d]) = Cardinality(ProducersOf(d))
        /\ SyncProducerReturned(d) => Cardinality(ProducersOf(d)) = 1

C8_Witness ==
    /\ proc["w1"].pc = "write" /\ proc["w1"].path = "created"
    /\ proc["w2"].pc = "write" /\ proc["w2"].path = "race_lost"
    /\ Cardinality(ProducersOf("client")) = 1

\* C9: sync_producer surfaces no error: found, created or race lost (the
\* IntegrityError is caught), it returns '<host>-<using>', which is the
\* producer of every row written.
C9_CanonicalName ==
    /\ \A w \in Writers :
          /\ result[w] # "IntegrityError"
          /\ proc[w].pc = "write" =>
                /\ proc[w].path \in {"found", "created", "race_lost"}
                /\ proc[w].producer = "host-" \o proc[w].using
    /\ \A d \in DBs : \A i \in 1..Len(outgoing[d]) :
          outgoing[d][i].producer = "host-" \o d

C9_Witness ==
    /\ proc["w2"].pc = "write" /\ proc["w2"].path = "race_lost"
    /\ proc["w2"].producer = "host-client"
    /\ result["w1"] = "OutgoingTransaction"

\* C10: of two rows of one database's log (one producer), the one created
\* later carries the strictly greater timestamp.
C10_StrictlyIncreasing ==
    \A d \in DBs : \A i, j \in 1..Len(outgoing[d]) :
        i < j => outgoing[d][i].timestamp < outgoing[d][j].timestamp

\* the outgoing rows of the origin that were copied to the peer
Delivered(origin) ==
    {i \in 1..Len(outgoing[origin]) : outgoing[origin][i].is_consumed_server}

\* each delivered transaction applied exactly once, in timestamp order, to an
\* empty database
AppliedOnce(origin) ==
    LET idx == ByTimestamp(outgoing[origin], Delivered(origin))
        rows == [k \in 1..Len(idx) |-> IncomingTransaction(outgoing[origin][idx[k]])]
    IN  deserialize_batch([k \in 1..Len(rows) |-> k], {},
            [entities |-> [e \in Entities |-> Absent], audits |-> {}, producers |-> << >>,
             incoming |-> rows, totals |-> NoCounts, messages |-> IdleConsumer.messages])

\* C4: whatever was copied and consumed, and however often, once no row is
\* pending the server's entities and the total counts are those of applying
\* each delivered transaction exactly once in timestamp order.
C4_AppliedAtMostOnce ==
    (\A i \in 1..Len(incoming["server"]) : incoming["server"][i].is_consumed) =>
        LET once == AppliedOnce("client")
        IN  /\ entities["server"] = once.entities
            /\ audits["server"] = once.audits
            /\ producers["server"] = once.producers
            /\ totals = once.totals

\* a run of deserialize by a server / by a device that is not a server
ServerRun == runs' = runs + 1 /\ consumer'.raised = None
RefusedRun == runs' = runs + 1 /\ consumer'.raised = "SyncError"

\* C5: a row becomes consumed only in a run in which its own apply succeeded,
\* a row whose apply failed stays pending, a consumed row never becomes
\* pending again (nor leaves the queue), and a run without a failure leaves no
\* row pending.
C5_ConsumedOnlyBySuccess ==
    [][/\ Len(incoming'["server"]) >= Len(incoming["server"])
       /\ \A i \in 1..Len(incoming["server"]) :
             LET before == incoming["server"][i].is_consumed
                 after == incoming'["server"][i].is_consumed
             IN  /\ before => after
                 /\ ~before /\ after =>
                        /\ ServerRun
                        /\ \E k \in 1..Len(consumer'.batch) : consumer'.batch[k] = i
                        /\ i \notin consumer'.failed
                 /\ ServerRun /\ i \in consumer'.failed =>
                        ~after /\ incoming'["server"][i].is_error
       /\ ServerRun /\ consumer'.failed = {} =>
             \A i \in 1..Len(incoming'["server"]) : incoming'["server"][i].is_consumed
      ]_vars

C5_Witness ==
    /\ consumer.failed # {}
    /\ \E i, j \in 1..Len(incoming["server"]) :
          /\ i < j
          /\ i \in consumer.failed
          /\ ~incoming["server"][i].is_consumed /\ incoming["server"][i].is_error
          /\ incoming["server"][j].is_consumed

\* C6: deserialize by a device that is not a server raises SyncError and
\* changes nothing: no row becomes consumed, no entity is written.
C6_NotServerChangesNothing ==
    [][RefusedRun =>
          /\ UNCHANGED <<entities, audits, producers, incoming, outgoing, totals>>
          /\ consumer'.batch = << >>
          /\ \A n \in TxNames : ~consumer'.messages[n].present
      ]_vars

C6_Witness ==
    /\ consumer.raised = "SyncError"
    /\ Len(incoming["server"]) >= 3
    /\ \A i \in 1..Len(incoming["server"]) : ~incoming["server"][i].is_consumed
    /\ entities["server"]["e1"] = Absent
    /\ entities["client"]["e1"] # Absent

\* every row of the queue is consumed
AllConsumed(peer) == \A i \in 1..Len(incoming[peer]) : incoming[peer][i].is_consumed

\* the last run was by a server and no row failed in it
LastRunSuccessful == runs >= 1 /\ consumer.raised = None /\ consumer.failed = {}

\* C7: deserialize invoked again after a fully successful run, nothing copied
\* in between, has an empty batch, returns no message and writes nothing.
C7_SecondRunIsEmpty ==
    [][LastRunSuccessful /\ AllConsumed("server") /\ ServerRun =>
          /\ consumer'.batch = << >>
          /\ \A n \in TxNames : ~consumer'.messages[n].present
          /\ UNCHANGED <<entities, audits, producers, incoming, outgoing, totals>>
      ]_vars

C7_Witness ==
    /\ runs = 2
    /\ LastRunSuccessful
    /\ consumer.batch = << >>
    /\ Len(incoming["server"]) >= 3
    /\ AllConsumed("server")
    /\ entities["server"]["e1"] # Absent

\* the rows of database d's log written for the model class m
RowsNamed(d, m) == {i \in 1..Len(outgoing[d]) : outgoing[d][i].tx_name = m}

\* C11: creating an instance of a model class without natural_key, or whose
\* manager is without get_by_natural_key, raises SyncError naming what is
\* missing and writes nothing: no row of the class, no OutgoingTransaction,
\* no Producer, and no call of to_outgoing_transaction is started.
C11_SyncErrorAtConstruction ==
    [][\A model \in BadModels, d \in DBs :
          create("w1", model, "e1", d) =>
              /\ result'["w1"] = IF model = "BadTestModel"
                                 THEN "SyncError: missing method natural_key"
                                 ELSE "SyncError: missing manager method get_by_natural_key"
              /\ UNCHANGED <<instances, entities, audits, outgoing, producers, proc>>
              /\ \A db \in DBs : instances'[db][model] = 0 /\ RowsNamed(db, model)' = {}
      ]_vars

C11_Witness ==
    /\ result["w1"] = "SyncError: missing manager method get_by_natural_key"
    /\ ops = 3
    /\ Len(outgoing["client"]) = 3
    /\ \A d \in DBs : \A m \in BadModels : instances[d][m] = 0

\* two transactions are of one object: a TestModel by its natural key f1, a
\* Producer by its name, an audit instance by its values
SameObject(r1, r2) ==
    /\ r1.tx_name = r2.tx_name
    /\ CASE r1.tx_name = "TestModel" -> restore(r1.tx).f1 = restore(r2.tx).f1
         [] r1.tx_name = "Producer" -> restore(r1.tx).name = restore(r2.tx).name
         [] OTHER -> restore(r1.tx) = restore(r2.tx)

\* the object of transaction r has a row in the database (E, A, P)
Exists(r, E, A, P) ==
    CASE r.tx_name = "TestModel" -> E[restore(r.tx).f1] # Absent
      [] r.tx_name = "Producer" -> \E i \in 1..Len(P) : P[i].name = restore(r.tx).name
      [] OTHER -> restore(r.tx) \in A

\* the pending rows of the peer are Inserts of distinct objects the peer has not
FreshInserts(peer) ==
    LET q == incoming[peer]
        S == {i \in 1..Len(q) : ~q[i].is_consumed}
    IN  /\ \A i \in S :
              /\ q[i].action = "I"
              /\ ~Exists(q[i], entities[peer], audits[peer], producers[peer])
        /\ \A i \in S : \A j \in S : i # j => ~SameObject(q[i], q[j])

\* C12: a run by a server, no row failing, over N pending Inserts of N distinct
\* objects the peer does not have returns one message per tx_name of the
\* batch, the messages count N inserted, 0 updated and 0 deleted in all, and
\* afterwards every one of the N objects exists on the peer.
C12_FreshInsertsCounted ==
    [][ServerRun /\ consumer'.failed = {} /\ FreshInserts("server") =>
          LET q == incoming["server"]
              S == {i \in 1..Len(q) : ~q[i].is_consumed}
              m == consumer'.messages
          IN  /\ \A n \in TxNames : m[n].present <=> \E i \in S : q[i].tx_name = n
              /\ m["TestModel"].counts.inserted + m["TestModelAudit"].counts.inserted
                     + m["Producer"].counts.inserted = Cardinality(S)
              /\ \A n \in TxNames :
                     /\ m[n].counts.updated = 0
                     /\ m[n].counts.deleted = 0
                     /\ m[n].errors = 0
              /\ \A i \in S :
                     Exists(q[i], entities'["server"], audits'["server"],
                            producers'["server"])
      ]_vars

C12_Witness ==
    /\ runs = 1 /\ copies = 1
    /\ consumer.raised = None /\ consumer.failed = {}
    /\ Len(consumer.batch) = 3
    /\ \A n \in TxNames : consumer.messages[n].counts = [NoCounts EXCEPT !.inserted = 1]
    /\ totals.inserted = 3
    /\ entities["server"]["e1"] # Absent
    /\ Len(producers["server"]) = 1

\* the rows of d's log for TestModel e that are not Deletes
SaveRows(d, e) ==
    {i \in RowsOf(d, "TestModel", e) : outgoing[d][i].action # "D"}

\* C13: no step removes or alters a row of a log; with serialization enabled,
\* once the writer has returned, an entity of a database other than 'default'
\* that was created and then saved k more times (and not deleted) has the rows
\* Insert, Update, ..., Update (k Updates) in its log, and its audit instance
\* has one Insert row for every one of the k + 1 saves.
C13_UpdateAndAuditRows ==
    [][/\ \A d \in DBs :
             /\ Len(outgoing'[d]) >= Len(outgoing[d])
             /\ \A i \in 1..Len(outgoing[d]) : outgoing'[d][i] = outgoing[d][i]
       /\ is_serialized /\ proc'["w1"].pc = "idle" =>
             \A d \in DBs \ {"default"} : \A e \in Entities :
                 LET a == ActionsOf(d, "TestModel", e, Len(outgoing[d]))'
                     audit == RowsOf(d, "TestModelAudit", e)'
                 IN  /\ Cardinality(audit) = Cardinality(SaveRows(d, e)')
                     /\ \A i \in audit : outgoing'[d][i].action = "I"
                     /\ (\A i \in 1..Len(a) : a[i] # "D") =>
                            /\ Len(a) = mutations'[d]["TestModel"][e]
                            /\ \A i \in 1..Len(a) :
                                   a[i] = IF i = 1 THEN "I" ELSE "U"
      ]_vars

C13_Witness ==
    /\ proc["w1"].pc = "idle"
    /\ is_serialized
    /\ ActionsOf("client", "TestModel", "e1", Len(outgoing["client"])) = <<"I", "U", "U">>
    /\ Cardinality(RowsOf("client", "TestModelAudit", "e1")) = 3
    /\ \A i \in RowsOf("client", "TestModelAudit", "e1") : outgoing["client"][i].action = "I"

\* the tx_name and the timestamp of the rows idx of d's log
Named(d, idx) == [k \in 1..Len(idx) |-> outgoing[d][idx[k]].tx_name]
Stamped(d, idx) == [k \in 1..Len(idx) |-> outgoing[d][idx[k]].timestamp]

\* C14: the first three rows written to the log of a database other than
\* 'default' are Inserts which, read by timestamp, are the entity's row, the
\* Producer's row and the audit instance's row, with strictly increasing
\* timestamps; and the log never holds a second Producer row.
C14_FirstCreateOrder ==
    \A d \in DBs \ {"default"} :
        /\ Cardinality(RowsNamed(d, "Producer")) <= 1
        /\ Len(outgoing[d]) >= 3 =>
               LET idx == ByTimestamp(outgoing[d], 1..3)
                   ts == Stamped(d, idx)
               IN  /\ Named(d, idx) = <<"TestModel", "Producer", "TestModelAudit">>
                   /\ \A k \in 1..3 : outgoing[d][k].action = "I"
                   /\ ts[1] < ts[2] /\ ts[2] < ts[3]

\* C15: a step writes OutgoingTransaction and Producer rows only in the
\* database the writer's call was given as using; the logs and Producers of
\* the other databases are unchanged, and with mutations made in 'client' (and
\* 'default') only, the 'server' database has no row at all.
C15_OnlyTheUsingDatabase ==
    [][/\ \A d \in DBs :
             outgoing'[d] # outgoing[d] \/ producers'[d] # producers[d] =>
                 /\ proc["w1"].pc \in {"create", "write"}
                 /\ proc["w1"].using = d
       /\ outgoing'["server"] = << >>
       /\ producers'["server"] = << >>
      ]_vars

C15_Witness ==
    /\ Len(outgoing["client"]) >= 5
    /\ Len(producers["client"]) = 1
    /\ entities["default"]["e2"] # Absent
    /\ outgoing["server"] = << >> /\ producers["server"] = << >>
    /\ outgoing["default"] = << >> /\ producers["default"] = << >>

\* a call of copy_to_incoming_transaction
Copy == copies' = copies + 1

\* the rows of the origin's log with a copy among the rows K of the peer's
\* queue that is unconsumed and equal to it in tx_name, tx_pk, tx, timestamp,
\* producer and action
CopiedTo(origin, q, K) ==
    {i \in 1..Len(outgoing[origin]) :
        \E k \in K :
            LET o == outgoing[origin][i]
            IN  /\ ~q[k].is_consumed /\ ~q[k].is_error
                /\ q[k].tx_name = o.tx_name /\ q[k].tx_pk = o.tx_pk
                /\ q[k].tx = o.tx /\ q[k].timestamp = o.timestamp
                /\ q[k].producer = o.producer /\ q[k].action = o.action}

\* C16: copy_to_incoming_transaction appends to the peer's queue one
\* unconsumed IncomingTransaction for each selected OutgoingTransaction, equal
\* to it in tx_name, tx_pk, tx, timestamp, producer and action, and leaves the
\* rows already queued as they are; copying .all() into an empty queue makes
\* the peer's incoming count the origin's outgoing count.
C16_CopyPreservesRows ==
    [][Copy =>
          LET q == incoming["server"]
              q2 == incoming'["server"]
              new == (Len(q) + 1)..Len(q2)
              all == 1..Len(outgoing["client"])
              unconsumed == {i \in all : ~outgoing["client"][i].is_consumed_server}
          IN  /\ \A k \in 1..Len(q) : q2[k] = q[k]
              /\ \/ /\ Len(q2) - Len(q) = Cardinality(all)
                     /\ CopiedTo("client", q2, new) = all
                  \/ /\ Len(q2) - Len(q) = Cardinality(unconsumed)
                     /\ CopiedTo("client", q2, new) = unconsumed
              /\ \A k \in new : CopiedTo("client", q2, {k}) # {}
              /\ (q = << >> /\ unconsumed = all) => Len(q2) = Len(outgoing'["client"])
      ]_vars

C16_Witness ==
    /\ copies = 1 /\ runs = 0
    /\ Len(outgoing["client"]) = 5
    /\ Len(incoming["server"]) = 5
    /\ CopiedTo("client", incoming["server"], 1..5) = 1..5
    /\ \E k \in 1..5 : incoming["server"][k].action = "U"

\* the rows of the batch b from position k on that did not fail and are of
\* TestModel
LaterTestModelRows(q, b, F, k) ==
    {j \in k..Len(b) : b[j] \notin F /\ q[b[j]].tx_name = "TestModel"}

PendingFor(peer, e) ==
    {i \in 1..Len(incoming[peer]) :
        /\ ~incoming[peer][i].is_consumed
        /\ incoming[peer][i].tx_name = "TestModel"
        /\ incoming[peer][i].tx_pk = e}

\* C18: a run whose only pending TestModel rows for an entity are Inserts,
\* the entity existing on the server already, leaves the entity as it was
\* (deserialize_on_duplicate not overridden), records no error for the rows
\* and marks them as consumed.
C18_DuplicateInsertSkipped ==
    [][ServerRun =>
          \A e \in Entities :
              LET S == PendingFor("server", e)
              IN  (/\ S # {}
                   /\ entities["server"][e] # Absent
                   /\ \A i \in S : incoming["server"][i].action = "I") =>
                      /\ entities'["server"][e] = entities["server"][e]
                      /\ \A j \in S :
                             /\ incoming'["server"][j].is_consumed
                             /\ ~incoming'["server"][j].is_error
      ]_vars

\* C19: the log of a database holds no row for a model class whose
\* skip_saving_criteria() returns True; a class that does not override it is
\* not skipped: with serialization enabled every one of its mutations in a
\* database other than 'default' has its row.
C19_SkipSavingCriteria ==
    \A d \in DBs : \A m \in ModelNames \cup OtherModels :
        IF skip_saving_criteria(m) = "True"
        THEN RowsNamed(d, m) = {}
        ELSE is_serialized /\ d # "default" =>
                 Cardinality(RowsOf(d, m, "e1")) = mutations[d][m]["e1"]

\* C20: with the global switch enabled (or absent) and the audit-trail switch
\* disabled, every mutation of a TestModel in a database other than 'default'
\* has its row and only the rows of the audit instances are missing; with both
\* switches absent is_serialized() is true and both have their rows.
C20_AuditSwitchIsSpecific ==
    \A d \in DBs \ {"default"} : \A e \in Entities :
        /\ ALLOW_MODEL_SERIALIZATION \in {Unset, "True"}
               /\ ALLOW_AUDIT_TRAIL_MODEL_SERIALIZATION = "False" =>
               /\ Cardinality(RowsOf(d, "TestModel", e)) = mutations[d]["TestModel"][e]
               /\ RowsOf(d, "TestModelAudit", e) = {}
        /\ ALLOW_MODEL_SERIALIZATION = Unset
               /\ ALLOW_AUDIT_TRAIL_MODEL_SERIALIZATION = Unset =>
               /\ is_serialized
               /\ \A n \in ModelNames :
                      Cardinality(RowsOf(d, n, e)) = mutations[d][n][e]

\* C21: whatever the interleaving of the writers, the producer of every row
\* of a database's log is the name of a Producer row of that database, and a
\* writer about to write its row, having found the Producer, created it or
\* lost the race for it, has a Producer row of that name in its database.
C21_ProducerExistsForRow ==
    /\ \A d \in DBs : \A i \in 1..Len(outgoing[d]) :
          \E k \in 1..Len(producers[d]) : producers[d][k].name = outgoing[d][i].producer
    /\ \A w \in Writers :
          proc[w].pc = "write" =>
              \E k \in 1..Len(producers[proc[w].using]) :
                  producers[proc[w].using][k].name = proc[w].producer

C21_Witness ==
    /\ proc["w1"].pc = "write" /\ proc["w1"].path = "race_lost"
    /\ proc["w1"].name = "TestModel"
    /\ result["w2"] = "OutgoingTransaction"
    /\ \E i \in 1..Len(outgoing["client"]) :
          /\ outgoing["client"][i].tx_name = "TestModel"
          /\ outgoing["client"][i].producer = producers["client"][1].name
    /\ Len(producers["client"]) = 1

\* C22: the 'default' database has no OutgoingTransaction and no Producer in
\* any state: no writer gets past the assertion with using = 'default' (it is
\* never reading or creating the Producer, nor writing its row, there), and a
\* call that raised AssertionError wrote nothing.
C22_NothingInDefault ==
    /\ outgoing["default"] = << >>
    /\ producers["default"] = << >>
    /\ \A w \in Writers :
          proc[w].pc \in {"get", "create", "write"} => proc[w].using # "default"
    /\ \A n \in ModelNames \cup OtherModels : \A e \in Entities :
          is_serialized => mutations["default"][n][e] = 0

C22_Witness ==
    /\ is_serialized
    /\ result["w1"] = "AssertionError"
    /\ proc["w1"].pc = "idle"
    /\ entities["default"]["e1"] # Absent
    /\ Len(outgoing["client"]) >= 3
    /\ outgoing["default"] = << >> /\ producers["default"] = << >>

====
